---- MODULE Spec2Model ----
(***************************************************************************)
(* A model of the study-helper backend (src/backend): the identity         *)
(* directory and credential store (crud.py), the token service and the     *)
(* authorization gate (main.py), and the problem store with its JSON       *)
(* encoded tag lists (crud.py, schemas.py).                                 *)
(*                                                                         *)
(* Conventions.  A Python Optional value is a sequence of length at most   *)
(* one: << >> is None and <<v>> is the value v.  A Python str that is fed   *)
(* to or produced by the json module is a sequence of one-character        *)
(* strings; every other str (a subject, a username) is a TLA+ string.      *)
(***************************************************************************)
EXTENDS Integers, Sequences, FiniteSets, TLC

\* users, problems: the rows of the two tables, in id order (row i has id i)
\* tokens: the bearer tokens that clients hold
\* now: the clock, in whole seconds since the first request
\* regs: the POST /register requests, each at its place in the handler
\* writes: the number of committed writes to the problems table
\* resp: the response of the request that the last step completed
VARIABLES users, problems, tokens, now, regs, patches, writes, resp

vars == <<users, problems, tokens, now, regs, patches, writes, resp>>

\* ------------------------------------------------------------------ bounds
MaxIssue == 1
MaxRegs == 2
MaxTokens == 2
MaxProblems == 2
MaxStamp == 1
MaxWrites == 3
MaxSalt == 2
MaxPatches == 2

\* ---------------------------------------------------------------- Optional
NoneV == << >>
Some(v) == <<v>>
IsNone(o) == o = << >>
Val(o) == o[1]

\* --------------------------------------------------------------- JSON text
\* Python objects as json.loads returns them, tagged with their type.
PyNone == [t |-> "NoneType", v |-> << >>]
PyBool(b) == [t |-> "bool", v |-> <<b>>]
PyInt(n) == [t |-> "int", v |-> <<n>>]
PyStr(s) == [t |-> "str", v |-> s]
PyList(xs) == [t |-> "list", v |-> xs]
PyDict(kvs) == [t |-> "dict", v |-> kvs]

Digits == <<"0", "1", "2", "3", "4", "5", "6", "7", "8", "9">>
IsDigit(c) == \E d \in 1..10 : Digits[d] = c
DigitVal(c) == (CHOOSE d \in 1..10 : Digits[d] = c) - 1
IsWs(c) == c \in {" ", "\t", "\n", "\r"}

Fail == [ok |-> FALSE, val |-> PyNone, pos |-> 0]
Done(v, p) == [ok |-> TRUE, val |-> v, pos |-> p]

RECURSIVE SkipWs(_, _)
SkipWs(s, i) == IF i <= Len(s) /\ IsWs(s[i]) THEN SkipWs(s, i + 1) ELSE i

\* s[i..] starts with the literal word w
StartsWith(s, i, w) ==
    /\ i + Len(w) - 1 <= Len(s)
    /\ \A k \in 1..Len(w) : s[i + k - 1] = w[k]

\* the body of a string, after its opening quote: characters up to the closing
\* quote, a backslash escaping a quote or a backslash
RECURSIVE ScanString(_, _, _)
ScanString(s, i, acc) ==
    IF i > Len(s) THEN Fail
    ELSE IF s[i] = "\"" THEN Done(PyStr(acc), i + 1)
    ELSE IF s[i] = "\\" THEN
        IF i + 1 <= Len(s) /\ s[i + 1] \in {"\"", "\\"}
        THEN ScanString(s, i + 2, Append(acc, s[i + 1]))
        ELSE Fail
    ELSE ScanString(s, i + 1, Append(acc, s[i]))

RECURSIVE ScanInt(_, _, _)
ScanInt(s, i, acc) ==
    IF i <= Len(s) /\ IsDigit(s[i])
    THEN ScanInt(s, i + 1, 10 * acc + DigitVal(s[i]))
    ELSE Done(PyInt(acc), i)

RECURSIVE ParseValue(_, _)
RECURSIVE ParseElems(_, _, _)
RECURSIVE ParseMembers(_, _, _)

\* the elements of an array after "[": value (ws "," value)* ws "]"
ParseElems(s, i, acc) ==
    LET e == ParseValue(s, i)
        j == SkipWs(s, e.pos)
    IN  IF ~e.ok \/ j > Len(s) THEN Fail
        ELSE IF s[j] = "]" THEN Done(PyList(Append(acc, e.val)), j + 1)
        ELSE IF s[j] = "," THEN ParseElems(s, j + 1, Append(acc, e.val))
        ELSE Fail

\* the members of an object after "{": string ws ":" value (ws "," ...)* ws "}"
ParseMembers(s, i, acc) ==
    LET k == SkipWs(s, i)
        key == IF k <= Len(s) /\ s[k] = "\"" THEN ScanString(s, k + 1, << >>) ELSE Fail
        c == SkipWs(s, key.pos)
        e == IF key.ok /\ c <= Len(s) /\ s[c] = ":" THEN ParseValue(s, c + 1) ELSE Fail
        j == SkipWs(s, e.pos)
    IN  IF ~e.ok \/ j > Len(s) THEN Fail
        ELSE IF s[j] = "}" THEN Done(PyDict(Append(acc, <<key.val, e.val>>)), j + 1)
        ELSE IF s[j] = "," THEN ParseMembers(s, j + 1, Append(acc, <<key.val, e.val>>))
        ELSE Fail

ParseValue(s, i0) ==
    LET i == SkipWs(s, i0)
    IN  IF i > Len(s) THEN Fail
        ELSE IF StartsWith(s, i, <<"n", "u", "l", "l">>) THEN Done(PyNone, i + 4)
        ELSE IF StartsWith(s, i, <<"t", "r", "u", "e">>) THEN Done(PyBool(TRUE), i + 4)
        ELSE IF StartsWith(s, i, <<"f", "a", "l", "s", "e">>) THEN Done(PyBool(FALSE), i + 5)
        ELSE IF s[i] = "\"" THEN ScanString(s, i + 1, << >>)
        ELSE IF s[i] = "0" THEN Done(PyInt(0), i + 1)
        ELSE IF IsDigit(s[i]) THEN ScanInt(s, i, 0)
        ELSE IF s[i] = "[" THEN
            LET j == SkipWs(s, i + 1)
            IN  IF j <= Len(s) /\ s[j] = "]" THEN Done(PyList(<< >>), j + 1)
                ELSE ParseElems(s, i + 1, << >>)
        ELSE IF s[i] = "{" THEN
            LET j == SkipWs(s, i + 1)
            IN  IF j <= Len(s) /\ s[j] = "}" THEN Done(PyDict(<< >>), j + 1)
                ELSE ParseMembers(s, i + 1, << >>)
        ELSE Fail

\* json.loads(text): the whole text is one value; otherwise JSONDecodeError
json_loads(s) ==
    LET r == ParseValue(s, 1)
    IN  IF r.ok /\ SkipWs(s, r.pos) = Len(s) + 1
        THEN [ok |-> TRUE, val |-> r.val]
        ELSE [ok |-> FALSE, val |-> PyNone]

\* json.dumps of a str: quoted, with quote and backslash escaped
RECURSIVE EscapeChars(_)
EscapeChars(s) ==
    IF s = << >> THEN << >>
    ELSE (IF Head(s) \in {"\"", "\\"} THEN <<"\\", Head(s)>> ELSE <<Head(s)>>)
         \o EscapeChars(Tail(s))

DumpStr(s) == <<"\"">> \o EscapeChars(s) \o <<"\"">>

RECURSIVE DumpElems(_)
DumpElems(xs) ==
    IF xs = << >> THEN << >>
    ELSE IF Len(xs) = 1 THEN DumpStr(xs[1])
    ELSE DumpStr(xs[1]) \o <<",", " ">> \o DumpElems(Tail(xs))

\* json.dumps(L) for a list of str L, with the default separators (", ")
json_dumps(xs) == <<"[">> \o DumpElems(xs) \o <<"]">>

\* ------------------------------------------------------------- credentials
SECRET_KEY == "dev-secret-change-me"
ALGORITHM == "HS256"
ACCESS_TOKEN_EXPIRE_MINUTES == 60 * 24 * 7
ExpireSeconds == ACCESS_TOKEN_EXPIRE_MINUTES * 60

\* the salts pwd_context.hash draws during the run.  A salt is 16 random bytes;
\* a draw that repeats an earlier salt is not modelled
Salts == 1..MaxSalt

\* pwd_context.hash had it derived the digest without a salt
get_password_hash_unsalted(password, salt) ==
    [salt |-> 0, digest |-> <<"pbkdf2_sha256", 0, password>>]

\* pwd_context.hash: PBKDF2 under a salt drawn at random, stored with the digest
get_password_hash(password, salt) ==
    [salt |-> salt, digest |-> <<"pbkdf2_sha256", salt, password>>]

\* pwd_context.verify: the digest of the plaintext under the stored salt
verify_password(plain, hashed) ==
    hashed.digest = <<"pbkdf2_sha256", hashed.salt, plain>>

\* ---------------------------------------------------------------- identity
uuid4(n) == <<"uuid", n>>

\* the salts that no stored hash carries
FreshSalts == Salts \ {users[i].hashed_password.salt : i \in DOMAIN users}

\* db.query(User).filter(User.username == username).first(): a row id, 0 for None
get_user_by_username(username) ==
    IF \E i \in DOMAIN users : users[i].username = username
    THEN CHOOSE i \in DOMAIN users :
            /\ users[i].username = username
            /\ \A j \in DOMAIN users : users[j].username = username => i <= j
    ELSE 0

\* the row create_user inserts had the default of is_admin been True
NewUser_admin(username, password, nickname, salt) ==
    [id |-> Len(users) + 1,
     uuid |-> uuid4(Len(users) + 1),
     username |-> username,
     hashed_password |-> get_password_hash(password, salt),
     nickname |-> nickname,
     is_active |-> TRUE,
     is_admin |-> TRUE,
     created_at |-> now]

\* the row create_user inserts: is_active and is_admin take the column defaults
NewUser(username, password, nickname, salt) ==
    [id |-> Len(users) + 1,
     uuid |-> uuid4(Len(users) + 1),
     username |-> username,
     hashed_password |-> get_password_hash(password, salt),
     nickname |-> nickname,
     is_active |-> TRUE,
     is_admin |-> FALSE,
     created_at |-> now]

authenticate_user(username, password) ==
    LET u == get_user_by_username(username)
    IN  IF u = 0 THEN 0
        ELSE IF ~verify_password(password, users[u].hashed_password) THEN 0
        ELSE u

\* list_users(db) with the defaults skip=0, limit=100
ListLimit == 100
list_users == SubSeq(users, 1, IF Len(users) < ListLimit THEN Len(users) ELSE ListLimit)

\* set_user_active(db, user_id, active): the table after the call
set_user_active(user_id, active) ==
    IF user_id \in DOMAIN users
    THEN [users EXCEPT ![user_id].is_active = active]
    ELSE users

\* schemas.UserOut
UserOut(u) == [id |-> u.id, uuid |-> u.uuid, username |-> u.username, nickname |-> u.nickname]

\* ------------------------------------------------------------------ tokens
Sign(key, sub, exp) == <<ALGORITHM, key, sub, exp>>

\* create_access_token(data={"sub": username}) with the default lifetime;
\* jwt.encode writes exp as whole seconds
create_access_token(username) ==
    [sub |-> Some(username),
     exp |-> now + ExpireSeconds,
     sig |-> Sign(SECRET_KEY, Some(username), now + ExpireSeconds)]

\* the token POST /login gave username at second 0
TokenOf(username) ==
    [sub |-> Some(username),
     exp |-> ExpireSeconds,
     sig |-> Sign(SECRET_KEY, Some(username), ExpireSeconds)]

\* jwt.decode had it refused the token at the expiry second itself
jwt_decode_strict(token, key, t) ==
    IF token.sig # Sign(key, token.sub, token.exp) THEN [ok |-> FALSE, sub |-> NoneV]
    ELSE IF token.exp <= t THEN [ok |-> FALSE, sub |-> NoneV]
    ELSE [ok |-> TRUE, sub |-> token.sub]

\* jwt.decode had it been called without verification of the signature
jwt_decode_unverified(token, key, t) ==
    IF token.exp < t THEN [ok |-> FALSE, sub |-> NoneV]
    ELSE [ok |-> TRUE, sub |-> token.sub]

\* jwt.decode: the signature is checked, then exp: the token is expired when
\* exp < now (python-jose's _validate_exp), so exp = now still verifies
jwt_decode(token, key, t) ==
    IF token.sig # Sign(key, token.sub, token.exp) THEN [ok |-> FALSE, sub |-> NoneV]
    ELSE IF token.exp < t THEN [ok |-> FALSE, sub |-> NoneV]
    ELSE [ok |-> TRUE, sub |-> token.sub]

\* get_current_user had it refused the users whose is_active flag is false
get_current_user_active(token) ==
    LET payload == jwt_decode(token, SECRET_KEY, now)
        u == IF payload.ok /\ ~IsNone(payload.sub)
             THEN get_user_by_username(Val(payload.sub)) ELSE 0
    IN  IF u # 0 /\ users[u].is_active THEN u ELSE 0

\* get_current_user: the id of the user the token resolves to, 0 for the 401
get_current_user(token) ==
    LET payload == jwt_decode(token, SECRET_KEY, now)
    IN  IF ~payload.ok THEN 0
        ELSE IF IsNone(payload.sub) THEN 0
        ELSE get_user_by_username(Val(payload.sub))

\* --------------------------------------------------------------- responses
NoResp == [op |-> "none", status |-> 0, uid |-> 0, req |-> << >>, body |-> << >>]
Resp(op, status, uid, req, body) ==
    [op |-> op, status |-> status, uid |-> uid, req |-> req, body |-> body]

\* ------------------------------------------------------------------- clock
\* the instants at which requests are observed: the first seconds, and the
\* seconds around the expiry of the tokens issued in them
IssueWindow == 0..MaxIssue
AuthInstants == IssueWindow \cup {ExpireSeconds - 1 + k : k \in 0..(MaxIssue + 2)}
StampInstants == 0..MaxStamp

Tick(Instants) ==
    /\ resp = NoResp
    /\ \E t \in Instants : t > now /\ now' = t
    /\ UNCHANGED <<users, problems, tokens, regs, writes, resp, patches>>

\* the response goes out to the client; a handler runs from start to end
\* between two such steps
Deliver ==
    /\ resp # NoResp
    /\ resp' = NoResp
    /\ UNCHANGED <<users, problems, tokens, now, regs, writes, patches>>

\* a PATCH /problems/{id} in flight: where its handler stands, the row its
\* session loaded, and its place in the order of the commits
IdlePatch == [pc |-> "idle", uid |-> 0, req |-> << >>, loaded |-> << >>, order |-> 0]

\* ------------------------------------------------------------ POST /register
IdleReg == [pc |-> "idle", username |-> "", password |-> "", nickname |-> NoneV, status |-> 0]

\* POST /register had it skipped the SELECT by username
RegisterCheck_unchecked(r, Names, Pws, Nicks) ==
    /\ resp = NoResp
    /\ regs[r].pc = "idle"
    /\ now \in IssueWindow
    /\ \E username \in Names, password \in Pws, nickname \in Nicks :
        /\ regs' = [regs EXCEPT ![r] =
                        [username |-> username, password |-> password,
                         nickname |-> nickname, pc |-> "checked", status |-> 0]]
        /\ resp' = NoResp
    /\ UNCHANGED <<users, problems, tokens, now, writes, patches>>

\* main.py register, first half: the SELECT by username and the 400 on a hit
RegisterCheck(r, Names, Pws, Nicks) ==
    /\ resp = NoResp
    /\ regs[r].pc = "idle"
    /\ now \in IssueWindow
    /\ \E username \in Names, password \in Pws, nickname \in Nicks :
        LET existing == get_user_by_username(username)
            req == [username |-> username, password |-> password, nickname |-> nickname]
        IN  IF existing # 0
            THEN /\ regs' = [regs EXCEPT ![r] = req @@ [pc |-> "done", status |-> 400]]
                 /\ resp' = Resp("register", 400, 0, req, << >>)
            ELSE /\ regs' = [regs EXCEPT ![r] = req @@ [pc |-> "checked", status |-> 0]]
                 /\ resp' = NoResp
    /\ UNCHANGED <<users, problems, tokens, now, writes, patches>>

\* crud.create_user had users.username carried no UNIQUE index
RegisterInsert_nonunique(r) ==
    /\ resp = NoResp
    /\ regs[r].pc = "checked"
    /\ \E salt \in FreshSalts :
        LET user == NewUser(regs[r].username, regs[r].password, regs[r].nickname, salt)
            req == [username |-> regs[r].username, password |-> regs[r].password,
                    nickname |-> regs[r].nickname]
        IN  /\ regs' = [regs EXCEPT ![r].pc = "done", ![r].status = 200]
            /\ resp' = Resp("register", 200, 0, req, Some(UserOut(user)))
            /\ users' = Append(users, user)
    /\ UNCHANGED <<problems, tokens, now, writes, patches>>

\* main.py register, second half: crud.create_user.  The INSERT commits unless
\* the UNIQUE index on users.username refuses it (IntegrityError, a 500)
RegisterInsert(r) ==
    /\ resp = NoResp
    /\ regs[r].pc = "checked"
    /\ \E salt \in FreshSalts :
        LET user == NewUser(regs[r].username, regs[r].password, regs[r].nickname, salt)
            req == [username |-> regs[r].username, password |-> regs[r].password,
                    nickname |-> regs[r].nickname]
        IN  IF get_user_by_username(regs[r].username) # 0
            THEN /\ regs' = [regs EXCEPT ![r].pc = "done", ![r].status = 500]
                 /\ resp' = Resp("register", 500, 0, req, << >>)
                 /\ users' = users
            ELSE /\ regs' = [regs EXCEPT ![r].pc = "done", ![r].status = 200]
                 /\ resp' = Resp("register", 200, 0, req, Some(UserOut(user)))
                 /\ users' = Append(users, user)
    /\ UNCHANGED <<problems, tokens, now, writes, patches>>

\* --------------------------------------------------------------- POST /login
\* main.py login had it told an unknown username from a wrong password
login_enumerating(username, password) ==
    IF get_user_by_username(username) = 0
    THEN [status |-> 404, uid |-> 0, body |-> Some([detail |-> "User not found"])]
    ELSE IF authenticate_user(username, password) = 0
    THEN [status |-> 400, uid |-> 0, body |-> Some([detail |-> "Incorrect username or password"])]
    ELSE [status |-> 200, uid |-> authenticate_user(username, password),
          body |-> Some([access_token |-> create_access_token(username),
                         token_type |-> "bearer"])]

\* main.py login: what the caller gets for username and password
login(username, password) ==
    IF authenticate_user(username, password) = 0
    THEN [status |-> 400, uid |-> 0, body |-> Some([detail |-> "Incorrect username or password"])]
    ELSE [status |-> 200, uid |-> authenticate_user(username, password),
          body |-> Some([access_token |-> create_access_token(username),
                         token_type |-> "bearer"])]

Login(Names, Pws) ==
    /\ resp = NoResp
    /\ now \in IssueWindow
    /\ Cardinality(tokens) < MaxTokens
    /\ \E username \in Names, password \in Pws :
        LET out == login(username, password)
            req == [username |-> username, password |-> password]
        IN  /\ resp' = Resp("login", out.status, out.uid, req, out.body)
            /\ tokens' = IF out.status = 200
                         THEN tokens \cup {Val(out.body).access_token} ELSE tokens
    /\ UNCHANGED <<users, problems, now, regs, writes, patches>>

\* ------------------------------------------------------------- GET /users/me
ReadUsersMe ==
    /\ resp = NoResp
    /\ \E token \in tokens :
        LET current_user == get_current_user(token)
            req == [token |-> token]
        IN  IF current_user = 0
            THEN resp' = Resp("read_users_me", 401, 0, req, << >>)
            ELSE resp' = Resp("read_users_me", 200, current_user, req,
                              Some(UserOut(users[current_user])))
    /\ UNCHANGED <<users, problems, tokens, now, regs, writes, patches>>

\* ---------------------------------------------------------- GET /admin/users
AdminListUsers ==
    /\ resp = NoResp
    /\ \E token \in tokens :
        LET current_user == get_current_user(token)
            req == [token |-> token]
        IN  IF current_user = 0
            THEN resp' = Resp("admin_list_users", 401, 0, req, << >>)
            ELSE IF ~users[current_user].is_admin
            THEN resp' = Resp("admin_list_users", 403, current_user, req, << >>)
            ELSE resp' = Resp("admin_list_users", 200, current_user, req,
                              Some([i \in DOMAIN list_users |-> UserOut(list_users[i])]))
    /\ UNCHANGED <<users, problems, tokens, now, regs, writes, patches>>

\* POST /admin/users/{id}/ban had it called crud.set_user_active before the
\* test of is_admin
AdminBanUser_eager ==
    /\ resp = NoResp
    /\ \E token \in tokens, user_id \in 1..(Len(users) + 1) :
        LET current_user == get_current_user(token)
            req == [token |-> token, user_id |-> user_id]
        IN  IF current_user = 0
            THEN /\ resp' = Resp("admin_ban_user", 401, 0, req, << >>)
                 /\ users' = users
            ELSE IF user_id \notin DOMAIN users
            THEN /\ resp' = Resp("admin_ban_user", 404, current_user, req, << >>)
                 /\ users' = users
            ELSE IF ~users[current_user].is_admin
            THEN /\ resp' = Resp("admin_ban_user", 403, current_user, req, << >>)
                 /\ users' = set_user_active(user_id, FALSE)
            ELSE /\ users' = set_user_active(user_id, FALSE)
                 /\ resp' = Resp("admin_ban_user", 200, current_user, req,
                                 Some(UserOut(users[user_id])))
    /\ UNCHANGED <<problems, tokens, now, regs, writes, patches>>

\* POST /admin/users/{id}/ban had it left out the is_admin check
AdminBanUser_ungated ==
    /\ resp = NoResp
    /\ \E token \in tokens, user_id \in 1..(Len(users) + 1) :
        LET current_user == get_current_user(token)
            req == [token |-> token, user_id |-> user_id]
        IN  IF current_user = 0
            THEN /\ resp' = Resp("admin_ban_user", 401, 0, req, << >>)
                 /\ users' = users
            ELSE IF user_id \notin DOMAIN users
            THEN /\ resp' = Resp("admin_ban_user", 404, current_user, req, << >>)
                 /\ users' = users
            ELSE /\ users' = set_user_active(user_id, FALSE)
                 /\ resp' = Resp("admin_ban_user", 200, current_user, req,
                                 Some(UserOut(users[user_id])))
    /\ UNCHANGED <<problems, tokens, now, regs, writes, patches>>

\* ------------------------------------------------ POST /admin/users/{id}/ban
AdminBanUser ==
    /\ resp = NoResp
    /\ \E token \in tokens, user_id \in 1..(Len(users) + 1) :
        LET current_user == get_current_user(token)
            req == [token |-> token, user_id |-> user_id]
        IN  IF current_user = 0
            THEN /\ resp' = Resp("admin_ban_user", 401, 0, req, << >>)
                 /\ users' = users
            ELSE IF ~users[current_user].is_admin
            THEN /\ resp' = Resp("admin_ban_user", 403, current_user, req, << >>)
                 /\ users' = users
            ELSE IF user_id \notin DOMAIN users
            THEN /\ resp' = Resp("admin_ban_user", 404, current_user, req, << >>)
                 /\ users' = users
            ELSE /\ users' = set_user_active(user_id, FALSE)
                 /\ resp' = Resp("admin_ban_user", 200, current_user, req,
                                 Some(UserOut(users[user_id])))
    /\ UNCHANGED <<problems, tokens, now, regs, writes, patches>>

\* -------------------------------------------------------------------- Init
\* an administrator exists only when the table was seeded with one: no request
\* creates one
RootUser ==
    [id |-> 1, uuid |-> uuid4(1), username |-> "root",
     hashed_password |-> get_password_hash("rootpw", 0 - 1), nickname |-> NoneV,
     is_active |-> TRUE, is_admin |-> TRUE, created_at |-> 0]

\* a user as POST /register of (username, password) left it at second 0, its
\* salt drawn before the run
Registered(id, username, password) ==
    [id |-> id, uuid |-> uuid4(id), username |-> username,
     hashed_password |-> get_password_hash(password, 0 - id), nickname |-> NoneV,
     is_active |-> TRUE, is_admin |-> FALSE, created_at |-> 0]

AuthNames == {"alice", "bob"}
AuthPws == {"pw1", "pw2"}
AuthNicks == {NoneV, Some("Al")}

\* ---------------------------------------------- registration and first login
\* from an empty table, or from one seeded with the administrator
InitRegister ==
    /\ users \in {<< >>, <<RootUser>>}
    /\ problems = << >>
    /\ tokens = {}
    /\ now = 0
    /\ regs = [r \in 1..MaxRegs |-> IdleReg]
    /\ patches = [s \in 1..MaxPatches |-> IdlePatch]
    /\ writes = 0
    /\ resp = NoResp

NextRegister ==
    \/ \E r \in 1..MaxRegs : RegisterCheck(r, AuthNames, AuthPws, AuthNicks)
    \/ \E r \in 1..MaxRegs : RegisterInsert(r)
    \/ Login(AuthNames, AuthPws)
    \/ Deliver

SpecRegister == InitRegister /\ [][NextRegister]_vars

\* ------------------------------------- sessions, the admin gate and the clock
\* the administrator and two registered users (a state SpecRegister reaches)
InitAuth ==
    /\ users = <<RootUser, Registered(2, "alice", "pw1"), Registered(3, "bob", "pw2")>>
    /\ problems = << >>
    /\ tokens = {}
    /\ now = 0
    /\ regs = [r \in 1..MaxRegs |-> IdleReg]
    /\ patches = [s \in 1..MaxPatches |-> IdlePatch]
    /\ writes = 0
    /\ resp = NoResp

NextAuth ==
    \/ Login(AuthNames \cup {"root"}, AuthPws \cup {"rootpw"})
    \/ ReadUsersMe
    \/ AdminListUsers
    \/ AdminBanUser
    \/ Tick(AuthInstants)
    \/ Deliver

SpecAuth == InitAuth /\ [][NextAuth]_vars

\* ============================================================ problem store
\* Python truthiness of an Optional str / text / int
TruthyStr(o) == ~IsNone(o) /\ Val(o) # ""
TruthyText(o) == ~IsNone(o) /\ Val(o) # << >>
TruthyInt(o) == ~IsNone(o) /\ Val(o) # 0

\* pydantic's Optional[List[str]]: None, or a list whose elements are all str
ValidStrList(v) ==
    \/ v.t = "NoneType"
    \/ v.t = "list" /\ \A i \in DOMAIN v.v : v.v[i].t = "str"

\* the validated field: None, or the list of its strings
ToOptList(v) == IF v.t = "NoneType" THEN NoneV ELSE Some([i \in DOMAIN v.v |-> v.v[i].v])

\* base64.b64encode(file_bytes).decode('utf-8'), kept apart from the bytes
b64encode(bytes) == <<"base64", bytes>>

\* crud.create_problem had it left owner_id out of the row it inserts
create_problem_ownerless(owner_id, problem_in) ==
    [id |-> Len(problems) + 1,
     owner_id |-> NoneV,
     source_type |-> problem_in.source_type,
     raw |-> Some(problem_in.raw),
     file_content |-> problem_in.file_content,
     parsed |-> NoneV,
     subject |-> problem_in.subject,
     course |-> problem_in.course,
     problem_type |-> problem_in.problem_type,
     knowledge_tags |-> IF ~IsNone(problem_in.knowledge_tags) /\ Val(problem_in.knowledge_tags) # << >>
                        THEN Some(json_dumps(Val(problem_in.knowledge_tags))) ELSE NoneV,
     difficulty |-> problem_in.difficulty,
     is_bookmarked |-> FALSE,
     tags |-> IF ~IsNone(problem_in.tags) /\ Val(problem_in.tags) # << >>
              THEN Some(json_dumps(Val(problem_in.tags))) ELSE NoneV,
     notes |-> problem_in.notes,
     created_at |-> now,
     updated_at |-> now]

\* crud.create_problem: the row inserted for owner_id from a ProblemCreate.
\* A tag list is stored as JSON text when it is truthy, as NULL otherwise.
create_problem(owner_id, problem_in) ==
    [id |-> Len(problems) + 1,
     owner_id |-> Some(owner_id),
     source_type |-> problem_in.source_type,
     raw |-> Some(problem_in.raw),
     file_content |-> problem_in.file_content,
     parsed |-> NoneV,
     subject |-> problem_in.subject,
     course |-> problem_in.course,
     problem_type |-> problem_in.problem_type,
     knowledge_tags |-> IF ~IsNone(problem_in.knowledge_tags) /\ Val(problem_in.knowledge_tags) # << >>
                        THEN Some(json_dumps(Val(problem_in.knowledge_tags))) ELSE NoneV,
     difficulty |-> problem_in.difficulty,
     is_bookmarked |-> FALSE,
     tags |-> IF ~IsNone(problem_in.tags) /\ Val(problem_in.tags) # << >>
              THEN Some(json_dumps(Val(problem_in.tags))) ELSE NoneV,
     notes |-> problem_in.notes,
     created_at |-> now,
     updated_at |-> now]

\* crud.update_problem had it copied the text fields of the payload without
\* testing them for None
ApplyUpdate_overwrite(p, problem_in) ==
    [p EXCEPT
        !.subject = problem_in.subject,
        !.course = problem_in.course,
        !.problem_type = problem_in.problem_type,
        !.knowledge_tags = IF IsNone(problem_in.knowledge_tags) THEN @
                           ELSE Some(json_dumps(Val(problem_in.knowledge_tags))),
        !.difficulty = problem_in.difficulty,
        !.is_bookmarked = IF IsNone(problem_in.is_bookmarked) THEN @
                          ELSE Val(problem_in.is_bookmarked),
        !.tags = IF IsNone(problem_in.tags) THEN @ ELSE Some(json_dumps(Val(problem_in.tags))),
        !.notes = problem_in.notes]

\* crud.update_problem: every field of the payload that is not None overwrites
\* the column; the tag lists are dumped again
ApplyUpdate(p, problem_in) ==
    [p EXCEPT
        !.subject = IF IsNone(problem_in.subject) THEN @ ELSE problem_in.subject,
        !.course = IF IsNone(problem_in.course) THEN @ ELSE problem_in.course,
        !.problem_type = IF IsNone(problem_in.problem_type) THEN @ ELSE problem_in.problem_type,
        !.knowledge_tags = IF IsNone(problem_in.knowledge_tags) THEN @
                           ELSE Some(json_dumps(Val(problem_in.knowledge_tags))),
        !.difficulty = IF IsNone(problem_in.difficulty) THEN @ ELSE problem_in.difficulty,
        !.is_bookmarked = IF IsNone(problem_in.is_bookmarked) THEN @
                          ELSE Val(problem_in.is_bookmarked),
        !.tags = IF IsNone(problem_in.tags) THEN @ ELSE Some(json_dumps(Val(problem_in.tags))),
        !.notes = IF IsNone(problem_in.notes) THEN @ ELSE problem_in.notes]

\* the commit had created_at been declared with onupdate as updated_at is
update_problem_restamped(p, problem_in) ==
    IF ApplyUpdate(p, problem_in) = p THEN p
    ELSE [ApplyUpdate(p, problem_in) EXCEPT !.updated_at = now, !.created_at = now]

\* the commit: the session writes an UPDATE only when a column has a new
\* value, and updated_at (onupdate) is set by that UPDATE
update_problem(p, problem_in) ==
    IF ApplyUpdate(p, problem_in) = p THEN p
    ELSE [ApplyUpdate(p, problem_in) EXCEPT !.updated_at = now]

\* ProblemOut.parse_knowledge_tags / parse_tags: a stored str is json.loads'ed,
\* None on a decode error; anything else passes through
parse_tags(v) ==
    IF IsNone(v) THEN PyNone
    ELSE json_loads(Val(v)).val    \* PyNone when the text does not decode

\* the fields of ProblemOut validated after the two "before" validators have
\* run: ok is false when the validation raises
model_validate(p, knowledge_tags, tags) ==
        IF ~ValidStrList(knowledge_tags) \/ ~ValidStrList(tags)
        THEN [ok |-> FALSE, body |-> << >>]
        ELSE [ok |-> TRUE,
              body |-> Some([id |-> p.id,
                             owner_id |-> p.owner_id,
                             source_type |-> p.source_type,
                             file_content |-> p.file_content,
                             subject |-> p.subject,
                             course |-> p.course,
                             problem_type |-> p.problem_type,
                             knowledge_tags |-> ToOptList(knowledge_tags),
                             difficulty |-> p.difficulty,
                             is_bookmarked |-> p.is_bookmarked,
                             tags |-> ToOptList(tags),
                             notes |-> p.notes,
                             created_at |-> p.created_at,
                             updated_at |-> p.updated_at])]

\* ProblemOut.from_orm(p)
ProblemOut(p) == model_validate(p, parse_tags(p.knowledge_tags), parse_tags(p.tags))

\* the endpoint returning a row under response_model=ProblemOut
Serve(op, uid, req, out) == Resp(op, IF out.ok THEN 200 ELSE 500, uid, req, out.body)

\* ----------------------------------------------------- POST /problems/upload
\* main.py upload_problem, up to the call of crud.create_problem: the status it
\* raises, or 200 with the ProblemCreate it built
upload_problem(form) ==
    LET knowledge_tags == IF TruthyText(form.knowledge_tags)
                          THEN json_loads(Val(form.knowledge_tags))
                          ELSE [ok |-> TRUE, val |-> PyNone]
        tags == IF TruthyText(form.tags)
                THEN json_loads(Val(form.tags))
                ELSE [ok |-> TRUE, val |-> PyNone]
        raw_store == IF ~IsNone(form.file) THEN "FILE:" \o Val(form.file).filename
                     ELSE Val(form.raw)
    IN  IF ~TruthyStr(form.raw) /\ IsNone(form.file) THEN [status |-> 400, problem_in |-> << >>]
        ELSE IF ~IsNone(form.file) /\ ~Val(form.file).readable
        THEN [status |-> 400, problem_in |-> << >>]
        ELSE IF ~knowledge_tags.ok THEN [status |-> 400, problem_in |-> << >>]
        ELSE IF ~tags.ok THEN [status |-> 400, problem_in |-> << >>]
        ELSE IF ~ValidStrList(knowledge_tags.val) \/ ~ValidStrList(tags.val)
        THEN [status |-> 500, problem_in |-> << >>]
        ELSE [status |-> 200,
              problem_in |-> Some(
                [source_type |-> form.source_type,
                 raw |-> raw_store,
                 file_content |-> IF IsNone(form.file) THEN NoneV
                                  ELSE Some(b64encode(Val(form.file).bytes)),
                 subject |-> form.subject,
                 course |-> form.course,
                 problem_type |-> form.problem_type,
                 knowledge_tags |-> ToOptList(knowledge_tags.val),
                 difficulty |-> form.difficulty,
                 tags |-> ToOptList(tags.val),
                 notes |-> form.notes])]

UploadProblem(Forms) ==
    /\ resp = NoResp
    /\ \E token \in tokens, form \in Forms :
        LET current_user == get_current_user(token)
            req == [token |-> token, form |-> form]
            out == upload_problem(form)
            p == create_problem(current_user, Val(out.problem_in))
        IN  IF current_user = 0
            THEN /\ resp' = Resp("upload_problem", 401, 0, req, << >>)
                 /\ UNCHANGED <<problems, writes>>
            ELSE IF out.status # 200
            THEN /\ resp' = Resp("upload_problem", out.status, current_user, req, << >>)
                 /\ UNCHANGED <<problems, writes>>
            ELSE /\ Len(problems) < MaxProblems
                 /\ writes < MaxWrites
                 /\ problems' = Append(problems, p)
                 /\ writes' = writes + 1
                 /\ resp' = Serve("upload_problem", current_user, req, ProblemOut(p))
    /\ UNCHANGED <<users, tokens, now, regs, patches>>

\* GET /problems/{id} had it compared owner_id strictly, as PATCH does
GetProblem_strict ==
    /\ resp = NoResp
    /\ \E token \in tokens, problem_id \in 1..(Len(problems) + 1) :
        LET current_user == get_current_user(token)
            req == [token |-> token, problem_id |-> problem_id]
        IN  IF current_user = 0
            THEN resp' = Resp("get_problem", 401, 0, req, << >>)
            ELSE IF problem_id \notin DOMAIN problems
            THEN resp' = Resp("get_problem", 404, current_user, req, << >>)
            ELSE IF problems[problem_id].owner_id # Some(users[current_user].id)
            THEN resp' = Resp("get_problem", 403, current_user, req, << >>)
            ELSE resp' = Serve("get_problem", current_user, req,
                               ProblemOut(problems[problem_id]))
    /\ UNCHANGED <<users, problems, tokens, now, regs, writes, patches>>

\* ------------------------------------------------------- GET /problems/{id}
GetProblem ==
    /\ resp = NoResp
    /\ \E token \in tokens, problem_id \in 1..(Len(problems) + 1) :
        LET current_user == get_current_user(token)
            req == [token |-> token, problem_id |-> problem_id]
        IN  IF current_user = 0
            THEN resp' = Resp("get_problem", 401, 0, req, << >>)
            ELSE IF problem_id \notin DOMAIN problems
            THEN resp' = Resp("get_problem", 404, current_user, req, << >>)
            ELSE IF /\ TruthyInt(problems[problem_id].owner_id)
                    /\ problems[problem_id].owner_id # Some(users[current_user].id)
            THEN resp' = Resp("get_problem", 403, current_user, req, << >>)
            ELSE resp' = Serve("get_problem", current_user, req,
                               ProblemOut(problems[problem_id]))
    /\ UNCHANGED <<users, problems, tokens, now, regs, writes, patches>>

\* PATCH /problems/{id} had it left out the comparison of owner_id
UpdateProblem_unowned(Payloads) ==
    /\ resp = NoResp
    /\ \E token \in tokens, problem_id \in 1..(Len(problems) + 1), problem_in \in Payloads :
        LET current_user == get_current_user(token)
            req == [token |-> token, problem_id |-> problem_id, problem_in |-> problem_in]
            p == update_problem(problems[problem_id], problem_in)
        IN  IF current_user = 0
            THEN /\ resp' = Resp("update_problem", 401, 0, req, << >>)
                 /\ UNCHANGED <<problems, writes>>
            ELSE IF problem_id \notin DOMAIN problems
            THEN /\ resp' = Resp("update_problem", 404, current_user, req, << >>)
                 /\ UNCHANGED <<problems, writes>>
            ELSE /\ p # problems[problem_id] => writes < MaxWrites
                 /\ problems' = [problems EXCEPT ![problem_id] = p]
                 /\ writes' = IF p # problems[problem_id] THEN writes + 1 ELSE writes
                 /\ resp' = Serve("update_problem", current_user, req, ProblemOut(p))
    /\ UNCHANGED <<users, tokens, now, regs, patches>>

\* ----------------------------------------------------- PATCH /problems/{id}
UpdateProblem(Payloads) ==
    /\ resp = NoResp
    /\ \E token \in tokens, problem_id \in 1..(Len(problems) + 1), problem_in \in Payloads :
        LET current_user == get_current_user(token)
            req == [token |-> token, problem_id |-> problem_id, problem_in |-> problem_in]
            p == update_problem(problems[problem_id], problem_in)
        IN  IF current_user = 0
            THEN /\ resp' = Resp("update_problem", 401, 0, req, << >>)
                 /\ UNCHANGED <<problems, writes>>
            ELSE IF problem_id \notin DOMAIN problems
            THEN /\ resp' = Resp("update_problem", 404, current_user, req, << >>)
                 /\ UNCHANGED <<problems, writes>>
            ELSE IF problems[problem_id].owner_id # Some(users[current_user].id)
            THEN /\ resp' = Resp("update_problem", 403, current_user, req, << >>)
                 /\ UNCHANGED <<problems, writes>>
            ELSE /\ p # problems[problem_id] => writes < MaxWrites
                 /\ problems' = [problems EXCEPT ![problem_id] = p]
                 /\ writes' = IF p # problems[problem_id] THEN writes + 1 ELSE writes
                 /\ resp' = Serve("update_problem", current_user, req, ProblemOut(p))
    /\ UNCHANGED <<users, tokens, now, regs, patches>>

\* ------------------------------------- PATCH /problems/{id}, step by step
\* db.commit() in crud.update_problem: the session flushes an UPDATE of the
\* columns whose value differs from the one it loaded, with updated_at
\* (onupdate), and no UPDATE at all when no column differs
commit_update(current, loaded, problem_in) ==
    LET applied == ApplyUpdate(loaded, problem_in)
        changed == {f \in DOMAIN loaded : applied[f] # loaded[f]}
    IN  IF changed = {} THEN current
        ELSE [f \in DOMAIN current |->
                IF f \in changed THEN applied[f]
                ELSE IF f = "updated_at" THEN now
                ELSE current[f]]

\* main.py update_problem up to the ownership test: crud.get_problem loads
\* the row into the session of the request
PatchRead(s, Payloads) ==
    /\ resp = NoResp
    /\ patches[s].pc = "idle"
    /\ \E token \in tokens, problem_id \in 1..(Len(problems) + 1), problem_in \in Payloads :
        LET current_user == get_current_user(token)
            req == [token |-> token, problem_id |-> problem_id, problem_in |-> problem_in]
            refused(status, uid) ==
                /\ resp' = Resp("update_problem", status, uid, req, << >>)
                /\ patches' = [patches EXCEPT ![s].pc = "done"]
        IN  IF current_user = 0 THEN refused(401, 0)
            ELSE IF problem_id \notin DOMAIN problems THEN refused(404, current_user)
            ELSE IF problems[problem_id].owner_id # Some(users[current_user].id)
            THEN refused(403, current_user)
            ELSE /\ resp' = NoResp
                 /\ patches' = [patches EXCEPT ![s] =
                        [pc |-> "loaded", uid |-> current_user, req |-> req,
                         loaded |-> Some(problems[problem_id]), order |-> 0]]
    /\ UNCHANGED <<users, problems, tokens, now, regs, writes>>

\* crud.update_problem up to db.commit(): the query finds the row already in
\* the session, the fields of the payload are set on it, the UPDATE commits
PatchCommit(s) ==
    /\ resp = NoResp
    /\ patches[s].pc = "loaded"
    /\ LET problem_id == patches[s].req.problem_id
       IN  problems' = [problems EXCEPT ![problem_id] =
                commit_update(@, Val(patches[s].loaded), patches[s].req.problem_in)]
    /\ problems' # problems => writes < MaxWrites
    /\ writes' = IF problems' # problems THEN writes + 1 ELSE writes
    /\ patches' = [patches EXCEPT
            ![s].pc = "committed",
            ![s].order = 1 + Cardinality({t \in DOMAIN patches : patches[t].order > 0})]
    /\ UNCHANGED <<users, tokens, now, regs, resp>>

\* db.refresh(p) and the response: the row as it is now
PatchRefresh(s) ==
    /\ resp = NoResp
    /\ patches[s].pc = "committed"
    /\ resp' = Serve("update_problem", patches[s].uid, patches[s].req,
                     ProblemOut(problems[patches[s].req.problem_id]))
    /\ patches' = [patches EXCEPT ![s].pc = "done"]
    /\ UNCHANGED <<users, problems, tokens, now, regs, writes>>

\* the query of list_problems had it left out the filter on owner_id
list_problems_unowned(current_user, q) ==
    LET Match(p) ==
            /\ TruthyStr(q.subject) => p.subject = q.subject
            /\ TruthyStr(q.course) => p.course = q.course
            /\ q.bookmarked_only => p.is_bookmarked
    IN  SelectSeq(problems, Match)

\* main.py list_problems: the rows of the query, in id order.  A filter is
\* added only when its parameter is truthy; a NULL owner_id equals no id
list_problems(current_user, q) ==
    LET Match(p) ==
            /\ p.owner_id = Some(users[current_user].id)
            /\ TruthyStr(q.subject) => p.subject = q.subject
            /\ TruthyStr(q.course) => p.course = q.course
            /\ q.bookmarked_only => p.is_bookmarked
    IN  SelectSeq(problems, Match)

\* response_model=List[ProblemOut]: every row through ProblemOut.from_orm
ServeList(op, uid, req, rows) ==
    IF \A i \in DOMAIN rows : ProblemOut(rows[i]).ok
    THEN Resp(op, 200, uid, req, Some([i \in DOMAIN rows |-> Val(ProblemOut(rows[i]).body)]))
    ELSE Resp(op, 500, uid, req, << >>)

\* ------------------------------------------------------------ GET /problems
ListProblems(Filters) ==
    /\ resp = NoResp
    /\ \E token \in tokens, q \in Filters :
        LET current_user == get_current_user(token)
            req == [token |-> token, q |-> q]
        IN  IF current_user = 0
            THEN resp' = Resp("list_problems", 401, 0, req, << >>)
            ELSE resp' = ServeList("list_problems", current_user, req,
                                   list_problems(current_user, q))
    /\ UNCHANGED <<users, problems, tokens, now, regs, writes, patches>>

\* ---------------------------------------------------------------- POST /solve
\* the placeholder result; the raw text read for it goes nowhere
SolveResult ==
    [thoughts |-> "read the problem, then solve step by step",
     steps |-> <<"analyse", "plan", "compute">>,
     answer |-> "42"]

Solve(Reqs) ==
    /\ resp = NoResp
    /\ \E token \in tokens, body \in Reqs :
        LET current_user == get_current_user(token)
            req == [token |-> token, body |-> body]
        IN  IF current_user = 0
            THEN resp' = Resp("solve", 401, 0, req, << >>)
            ELSE resp' = Resp("solve", 200, current_user, req, Some(SolveResult))
    /\ UNCHANGED <<users, problems, tokens, now, regs, writes, patches>>

\* --------------------------------------------------------------- GET /profile
\* crud.get_learning_profile: no endpoint writes topic_mastery, the dict of
\* the rows of the user is empty
get_learning_profile(user_id) == [user_id |-> user_id, mastery |-> << >>, trend |-> << >>]

Profile ==
    /\ resp = NoResp
    /\ \E token \in tokens :
        LET current_user == get_current_user(token)
            req == [token |-> token]
        IN  IF current_user = 0
            THEN resp' = Resp("profile", 401, 0, req, << >>)
            ELSE resp' = Resp("profile", 200, current_user, req,
                              Some(get_learning_profile(users[current_user].id)))
    /\ UNCHANGED <<users, problems, tokens, now, regs, writes, patches>>

\* ------------------------------------------------------------------ inputs
\* tags: a, b and the tag  a"\  that json.dumps has to escape
TagA == <<"a">>
TagB == <<"b">>
TagQ == <<"a", "\"", "\\">>
TagLists == {<< >>, <<TagA>>, <<TagA, TagB>>, <<TagB, TagA>>, <<TagQ>>}

\* what a client sends for a list: json.dumps of it (src/test/test_upload_problem.py)
ClientTexts == {json_dumps(L) : L \in TagLists}

\* other texts a client can send:  ["a","b"]  null  {"a": 1}  "a"  5
\* not json  ["a"
TextNoSpace == <<"[", "\"", "a", "\"", ",", "\"", "b", "\"", "]">>
TextNull == <<"n", "u", "l", "l">>
TextObject == <<"{", "\"", "a", "\"", ":", " ", "1", "}">>
TextString == <<"\"", "a", "\"">>
TextNumber == <<"5">>
TextNotJson == <<"n", "o", "t", " ", "j", "s", "o", "n">>
TextTruncated == <<"[", "\"", "a", "\"">>
TagTexts == ClientTexts \cup {TextNoSpace, TextNull, TextObject, TextString,
                              TextNumber, TextNotJson, TextTruncated}
FewTagTexts == {json_dumps(<< >>), json_dumps(<<TagB, TagA>>), TextNull, TextNotJson}

\* the form of POST /problems/upload with only raw
MinimalForm(raw) ==
    [raw |-> raw, file |-> NoneV, source_type |-> "text", subject |-> NoneV,
     course |-> NoneV, problem_type |-> NoneV, knowledge_tags |-> NoneV,
     difficulty |-> NoneV, tags |-> NoneV, notes |-> NoneV]

\* the form of test_upload_text_problem: every field
FullForm ==
    [raw |-> Some("2x+3=7"), file |-> NoneV, source_type |-> "text",
     subject |-> Some("math"), course |-> Some("calculus"),
     problem_type |-> Some("solve"),
     knowledge_tags |-> Some(json_dumps(<<TagA, TagB>>)),
     difficulty |-> Some(2), tags |-> Some(json_dumps(<<TagB>>)),
     notes |-> Some("basic")]

PngFile == [filename |-> "problem.png", bytes |-> <<137, 80>>, readable |-> TRUE]
BadFile == [filename |-> "problem.png", bytes |-> << >>, readable |-> FALSE]

FileForms ==
    {[MinimalForm(raw) EXCEPT !.file = Some(f), !.source_type = "image"] :
        raw \in {NoneV, Some("2+2=?")}, f \in {PngFile, BadFile}}

UploadForms ==
    {MinimalForm(NoneV), MinimalForm(Some("2+2=?")), FullForm}
    \cup {[MinimalForm(Some("2+2=?")) EXCEPT !.knowledge_tags = Some(t)] : t \in TagTexts}
    \cup {[MinimalForm(Some("2+2=?")) EXCEPT !.tags = Some(t)] : t \in FewTagTexts}
    \cup FileForms

\* the body of PATCH /problems/{id} with no field
EmptyUpdate ==
    [subject |-> NoneV, course |-> NoneV, problem_type |-> NoneV,
     knowledge_tags |-> NoneV, difficulty |-> NoneV, is_bookmarked |-> NoneV,
     tags |-> NoneV, notes |-> NoneV]

\* the bodies with one field
SingleUpdates ==
    {[EmptyUpdate EXCEPT !.subject = Some(v)] : v \in {"math", "physics"}}
    \cup {[EmptyUpdate EXCEPT !.course = Some("algebra")]}
    \cup {[EmptyUpdate EXCEPT !.problem_type = Some("proof")]}
    \cup {[EmptyUpdate EXCEPT !.knowledge_tags = Some(L)] : L \in TagLists}
    \cup {[EmptyUpdate EXCEPT !.difficulty = Some(v)] : v \in {0, 3}}
    \cup {[EmptyUpdate EXCEPT !.is_bookmarked = Some(v)] : v \in BOOLEAN}
    \cup {[EmptyUpdate EXCEPT !.tags = Some(L)] : L \in {<< >>, <<TagB, TagA>>}}
    \cup {[EmptyUpdate EXCEPT !.notes = Some(v)] : v \in {"", "hard"}}

\* the body of the docstring of PATCH /problems/{id}: every field
FullUpdate ==
    [subject |-> Some("physics"), course |-> Some("mechanics"),
     problem_type |-> Some("choice"), knowledge_tags |-> Some(<<TagB, TagA>>),
     difficulty |-> Some(3), is_bookmarked |-> Some(TRUE),
     tags |-> Some(<<TagA>>), notes |-> Some("key")]

Updates == {EmptyUpdate, FullUpdate} \cup SingleUpdates

\* ------------------------------------------------------ the upload endpoint
\* alice and bob are registered and hold the tokens of their logins
InitUpload ==
    /\ users = <<Registered(1, "alice", "pw1"), Registered(2, "bob", "pw2")>>
    /\ problems = << >>
    /\ tokens = {TokenOf("alice"), TokenOf("bob")}
    /\ now = 0
    /\ regs = [r \in 1..MaxRegs |-> IdleReg]
    /\ patches = [s \in 1..MaxPatches |-> IdlePatch]
    /\ writes = 0
    /\ resp = NoResp

NextUpload ==
    \/ UploadProblem(UploadForms)
    \/ GetProblem
    \/ Tick(StampInstants)
    \/ Deliver

SpecUpload == InitUpload /\ [][NextUpload]_vars

\* ------------------------------------------------------ the update endpoint
\* alice has uploaded FullForm and bob MinimalForm (a state SpecUpload reaches)
InitUpdate ==
    /\ users = <<Registered(1, "alice", "pw1"), Registered(2, "bob", "pw2")>>
    /\ problems =
        <<[id |-> 1, owner_id |-> Some(1), source_type |-> "text",
           raw |-> Some("2x+3=7"), file_content |-> NoneV, parsed |-> NoneV,
           subject |-> Some("math"), course |-> Some("calculus"),
           problem_type |-> Some("solve"),
           knowledge_tags |-> Some(json_dumps(<<TagA, TagB>>)),
           difficulty |-> Some(2), is_bookmarked |-> FALSE,
           tags |-> Some(json_dumps(<<TagB>>)), notes |-> Some("basic"),
           created_at |-> 0, updated_at |-> 0],
          [id |-> 2, owner_id |-> Some(2), source_type |-> "text",
           raw |-> Some("2+2=?"), file_content |-> NoneV, parsed |-> NoneV,
           subject |-> NoneV, course |-> NoneV, problem_type |-> NoneV,
           knowledge_tags |-> NoneV, difficulty |-> NoneV, is_bookmarked |-> FALSE,
           tags |-> NoneV, notes |-> NoneV, created_at |-> 0, updated_at |-> 0]>>
    /\ tokens = {TokenOf("alice"), TokenOf("bob")}
    /\ now = 0
    /\ regs = [r \in 1..MaxRegs |-> IdleReg]
    /\ patches = [s \in 1..MaxPatches |-> IdlePatch]
    /\ writes = 2
    /\ resp = NoResp

NextUpdate ==
    \/ UpdateProblem(Updates)
    \/ GetProblem
    \/ Tick(StampInstants)
    \/ Deliver

SpecUpdate == InitUpdate /\ [][NextUpdate]_vars

\* ------------------------------------------------- the problems of two users
\* alice and bob upload, read and update, each with the token of their login
SmallForms == {MinimalForm(NoneV), MinimalForm(Some("2+2=?"))}
SmallUpdates == {[EmptyUpdate EXCEPT !.subject = Some("math")],
                 [EmptyUpdate EXCEPT !.is_bookmarked = Some(TRUE)]}

NextOwner ==
    \/ UploadProblem(SmallForms)
    \/ GetProblem
    \/ UpdateProblem(SmallUpdates)
    \/ Tick(StampInstants)
    \/ Deliver

SpecOwner == InitUpload /\ [][NextOwner]_vars

\* ------------------------------------------ a store with an ownerless problem
\* owner_id is nullable (models.py): the table holds a row without owner, which
\* no endpoint writes, next to the rows alice and bob upload
OrphanRow ==
    [id |-> 1, owner_id |-> NoneV, source_type |-> "text", raw |-> Some("1+1=?"),
     file_content |-> NoneV, parsed |-> NoneV, subject |-> Some("math"),
     course |-> NoneV, problem_type |-> NoneV, knowledge_tags |-> NoneV,
     difficulty |-> NoneV, is_bookmarked |-> TRUE, tags |-> NoneV, notes |-> NoneV,
     created_at |-> 0, updated_at |-> 0]

\* the query parameters of GET /problems
ListFilters ==
    {[subject |-> sb, course |-> c, bookmarked_only |-> b] :
        sb \in {NoneV, Some(""), Some("math")}, c \in {NoneV, Some("algebra")},
        b \in BOOLEAN}
NoFilter == [subject |-> NoneV, course |-> NoneV, bookmarked_only |-> FALSE]

OrphanUpdates == SmallUpdates \cup {[EmptyUpdate EXCEPT !.course = Some("algebra")]}

InitOrphan ==
    /\ users = <<Registered(1, "alice", "pw1"), Registered(2, "bob", "pw2")>>
    /\ problems = <<OrphanRow>>
    /\ tokens = {TokenOf("alice"), TokenOf("bob")}
    /\ now = 0
    /\ regs = [r \in 1..MaxRegs |-> IdleReg]
    /\ patches = [s \in 1..MaxPatches |-> IdlePatch]
    /\ writes = 1
    /\ resp = NoResp

NextOrphan ==
    \/ UploadProblem(SmallForms)
    \/ GetProblem
    \/ UpdateProblem(OrphanUpdates)
    \/ ListProblems(ListFilters)
    \/ Tick(StampInstants)
    \/ Deliver

SpecOrphan == InitOrphan /\ [][NextOrphan]_vars

\* ------------------------------------------------- the authorization gate
\* tokens a client can present that the gate has to refuse: signed with
\* another key, not a JWT at all, signed without sub, signed for a username
\* that is not registered, and a token of alice whose exp has passed
OtherKeyToken ==
    [sub |-> Some("alice"), exp |-> ExpireSeconds,
     sig |-> Sign("another-secret", Some("alice"), ExpireSeconds)]
GarbageToken == [sub |-> NoneV, exp |-> 0, sig |-> <<"garbage">>]
NoSubToken == [sub |-> NoneV, exp |-> ExpireSeconds, sig |-> Sign(SECRET_KEY, NoneV, ExpireSeconds)]
StrangerToken ==
    [sub |-> Some("mallory"), exp |-> ExpireSeconds,
     sig |-> Sign(SECRET_KEY, Some("mallory"), ExpireSeconds)]
StaleToken == [sub |-> Some("alice"), exp |-> 0 - 1, sig |-> Sign(SECRET_KEY, Some("alice"), 0 - 1)]
BadTokens == {OtherKeyToken, GarbageToken, NoSubToken, StrangerToken, StaleToken}

SolveReqs ==
    {[problem_id |-> NoneV, raw |-> Some("2+2=?")], [problem_id |-> Some(1), raw |-> NoneV]}

\* root, alice and bob are registered, alice has uploaded one problem; root
\* and alice present the tokens of their logins, and the bad tokens are around
InitGate ==
    /\ users = <<RootUser, Registered(2, "alice", "pw1"), Registered(3, "bob", "pw2")>>
    /\ problems =
        <<[id |-> 1, owner_id |-> Some(2), source_type |-> "text", raw |-> Some("2+2=?"),
           file_content |-> NoneV, parsed |-> NoneV, subject |-> NoneV, course |-> NoneV,
           problem_type |-> NoneV, knowledge_tags |-> NoneV, difficulty |-> NoneV,
           is_bookmarked |-> FALSE, tags |-> NoneV, notes |-> NoneV,
           created_at |-> 0, updated_at |-> 0]>>
    /\ tokens = {TokenOf("root"), TokenOf("alice")} \cup BadTokens
    /\ now = 0
    /\ regs = [r \in 1..MaxRegs |-> IdleReg]
    /\ patches = [s \in 1..MaxPatches |-> IdlePatch]
    /\ writes = 1
    /\ resp = NoResp

NextGate ==
    \/ ReadUsersMe
    \/ UploadProblem(SmallForms)
    \/ GetProblem
    \/ UpdateProblem(SmallUpdates)
    \/ ListProblems({NoFilter})
    \/ Solve(SolveReqs)
    \/ Profile
    \/ AdminListUsers
    \/ AdminBanUser
    \/ Tick(StampInstants)
    \/ Deliver

SpecGate == InitGate /\ [][NextGate]_vars

\* ------------------------------------------------------ a crowded users table
\* one user short of the default limit of list_users are registered, root the
\* first of them; two more register
CrowdName(i) == "user" \o ToString(i)
InitCrowd ==
    /\ users = [i \in 1..(ListLimit - 1) |->
                    IF i = 1 THEN RootUser ELSE Registered(i, CrowdName(i), "pw1")]
    /\ problems = << >>
    /\ tokens = {TokenOf("root")}
    /\ now = 0
    /\ regs = [r \in 1..MaxRegs |-> IdleReg]
    /\ patches = [s \in 1..MaxPatches |-> IdlePatch]
    /\ writes = 0
    /\ resp = NoResp

NextCrowd ==
    \/ \E r \in 1..MaxRegs : RegisterCheck(r, AuthNames, {"pw1"}, {NoneV})
    \/ \E r \in 1..MaxRegs : RegisterInsert(r)
    \/ AdminListUsers
    \/ Tick(StampInstants)
    \/ Deliver

SpecCrowd == InitCrowd /\ [][NextCrowd]_vars

\* ------------------------------------------- two PATCHes of one problem
\* the row create_problem wrote for alice's upload of FullForm at second 0
FullRow ==
    [id |-> 1, owner_id |-> Some(1), source_type |-> "text", raw |-> Some("2x+3=7"),
     file_content |-> NoneV, parsed |-> NoneV, subject |-> Some("math"),
     course |-> Some("calculus"), problem_type |-> Some("solve"),
     knowledge_tags |-> Some(json_dumps(<<TagA, TagB>>)), difficulty |-> Some(2),
     is_bookmarked |-> FALSE, tags |-> Some(json_dumps(<<TagB>>)), notes |-> Some("basic"),
     created_at |-> 0, updated_at |-> 0]

RaceUpdates ==
    {[EmptyUpdate EXCEPT !.subject = Some("physics")],
     [EmptyUpdate EXCEPT !.subject = Some("math")],
     [EmptyUpdate EXCEPT !.course = Some("algebra")],
     [EmptyUpdate EXCEPT !.subject = Some("physics"), !.course = Some("mechanics")]}

InitRace ==
    /\ users = <<Registered(1, "alice", "pw1"), Registered(2, "bob", "pw2")>>
    /\ problems = <<FullRow>>
    /\ tokens = {TokenOf("alice")}
    /\ now = 0
    /\ regs = [r \in 1..MaxRegs |-> IdleReg]
    /\ patches = [s \in 1..MaxPatches |-> IdlePatch]
    /\ writes = 1
    /\ resp = NoResp

NextRace ==
    \/ \E s \in 1..MaxPatches : PatchRead(s, RaceUpdates)
    \/ \E s \in 1..MaxPatches : PatchCommit(s)
    \/ \E s \in 1..MaxPatches : PatchRefresh(s)
    \/ GetProblem
    \/ Tick(StampInstants)
    \/ Deliver

SpecRace == InitRace /\ [][NextRace]_vars

\* ----------------------------------------------- stored tag texts of any kind
\* knowledge_tags and tags are Text columns (models.py): the table holds a row
\* of alice whose tag texts were not written by json.dumps of a list
StoredTexts == {TextNotJson, TextTruncated, TextNull, TextObject, TextString, TextNumber,
                json_dumps(<<TagA, TagB>>)}
FewStoredTexts == {TextNotJson, TextNumber}

StoredRow(knowledge_tags, tags) ==
    [id |-> 1, owner_id |-> Some(1), source_type |-> "text", raw |-> Some("2+2=?"),
     file_content |-> NoneV, parsed |-> NoneV, subject |-> NoneV, course |-> NoneV,
     problem_type |-> NoneV, knowledge_tags |-> knowledge_tags, difficulty |-> NoneV,
     is_bookmarked |-> FALSE, tags |-> tags, notes |-> NoneV,
     created_at |-> 0, updated_at |-> 0]

InitStored ==
    /\ users = <<Registered(1, "alice", "pw1"), Registered(2, "bob", "pw2")>>
    /\ \E knowledge_tags \in {NoneV} \cup {Some(t) : t \in StoredTexts},
          tags \in {NoneV} \cup {Some(t) : t \in FewStoredTexts} :
            problems = <<StoredRow(knowledge_tags, tags)>>
    /\ tokens = {TokenOf("alice"), TokenOf("bob")}
    /\ now = 0
    /\ regs = [r \in 1..MaxRegs |-> IdleReg]
    /\ patches = [s \in 1..MaxPatches |-> IdlePatch]
    /\ writes = 1
    /\ resp = NoResp

NextStored ==
    \/ GetProblem
    \/ ListProblems({NoFilter})
    \/ UpdateProblem(SmallUpdates)
    \/ Tick(StampInstants)
    \/ Deliver

SpecStored == InitStored /\ [][NextStored]_vars

\* ------------------------------------------------- the life of the records
\* root, alice and bob are registered and root is logged in; alice logs in,
\* the two upload files, update every field a PATCH can carry, ask for
\* solutions, and root bans
LifeForms == {[MinimalForm(NoneV) EXCEPT !.file = Some(PngFile), !.source_type = "image"]}
LifeUpdates == {FullUpdate}

InitLife ==
    /\ users = <<RootUser, Registered(2, "alice", "pw1"), Registered(3, "bob", "pw2")>>
    /\ problems = << >>
    /\ tokens = {TokenOf("root")}
    /\ now = 0
    /\ regs = [r \in 1..MaxRegs |-> IdleReg]
    /\ patches = [s \in 1..MaxPatches |-> IdlePatch]
    /\ writes = 0
    /\ resp = NoResp

NextLife ==
    \/ Login({"alice"}, {"pw1"})
    \/ UploadProblem(LifeForms)
    \/ UpdateProblem(LifeUpdates)
    \/ Solve(SolveReqs)
    \/ AdminBanUser
    \/ Tick(StampInstants)
    \/ Deliver

SpecLife == InitLife /\ [][NextLife]_vars

\* ------------------------------------------------------ requests that fail
\* root and alice are registered, alice has uploaded one problem and a token
\* of hers that has expired is still around; one of the two logs in, and the
\* requests are the good ones and the ones every endpoint refuses: a taken
\* username, a wrong password or an unknown name, a form without raw and file,
\* the expired token, another user's problem, a ban by alice, and ids that
\* do not exist
RefusalNames == {"alice", "carol"}
RefusalForms == {MinimalForm(NoneV), MinimalForm(Some("2+2=?"))}
RefusalUpdates == {[EmptyUpdate EXCEPT !.is_bookmarked = Some(TRUE)]}

InitRefusals ==
    /\ users = <<RootUser, Registered(2, "alice", "pw1")>>
    /\ problems =
        <<[id |-> 1, owner_id |-> Some(2), source_type |-> "text", raw |-> Some("2+2=?"),
           file_content |-> NoneV, parsed |-> NoneV, subject |-> NoneV, course |-> NoneV,
           problem_type |-> NoneV, knowledge_tags |-> NoneV, difficulty |-> NoneV,
           is_bookmarked |-> FALSE, tags |-> NoneV, notes |-> NoneV,
           created_at |-> 0, updated_at |-> 0]>>
    /\ tokens = {StaleToken}
    /\ now = 0
    /\ regs = [r \in 1..MaxRegs |-> IdleReg]
    /\ patches = [s \in 1..MaxPatches |-> IdlePatch]
    /\ writes = 1
    /\ resp = NoResp

NextRefusals ==
    \/ \E r \in 1..MaxRegs : RegisterCheck(r, RefusalNames, {"pw1"}, {NoneV})
    \/ \E r \in 1..MaxRegs : RegisterInsert(r)
    \/ Login({"root", "alice", "mallory"}, {"rootpw", "pw1"})
    \/ UploadProblem(RefusalForms)
    \/ GetProblem
    \/ UpdateProblem(RefusalUpdates)
    \/ AdminBanUser
    \/ Deliver

SpecRefusals == InitRefusals /\ [][NextRefusals]_vars

\* ------------------------------------------------- a store without admins
\* the users table is empty; users register and log in, and
\* call the admin endpoints with the tokens of their logins, before and after
\* these expire, and with a text that is no token
InitNoAdmin ==
    /\ users = << >>
    /\ problems = << >>
    /\ tokens = {GarbageToken}
    /\ now = 0
    /\ regs = [r \in 1..MaxRegs |-> IdleReg]
    /\ patches = [s \in 1..MaxPatches |-> IdlePatch]
    /\ writes = 0
    /\ resp = NoResp

NextNoAdmin ==
    \/ \E r \in 1..MaxRegs : RegisterCheck(r, AuthNames, {"pw1"}, {NoneV})
    \/ \E r \in 1..MaxRegs : RegisterInsert(r)
    \/ Login(AuthNames, {"pw1"})
    \/ AdminListUsers
    \/ AdminBanUser
    \/ Tick(AuthInstants)
    \/ Deliver

SpecNoAdmin == InitNoAdmin /\ [][NextNoAdmin]_vars

\* -------------------------------------------------------- the whole service
\* every endpoint, from the empty database, on few inputs
Init ==
    /\ users = << >>
    /\ problems = << >>
    /\ tokens = {}
    /\ now = 0
    /\ regs = [r \in 1..MaxRegs |-> IdleReg]
    /\ patches = [s \in 1..MaxPatches |-> IdlePatch]
    /\ writes = 0
    /\ resp = NoResp

Next ==
    \/ \E r \in 1..MaxRegs : RegisterCheck(r, AuthNames, {"pw1"}, {NoneV})
    \/ \E r \in 1..MaxRegs : RegisterInsert(r)
    \/ Login(AuthNames, {"pw1"})
    \/ ReadUsersMe
    \/ AdminListUsers
    \/ AdminBanUser
    \/ UploadProblem(SmallForms)
    \/ GetProblem
    \/ UpdateProblem(SmallUpdates)
    \/ Tick(StampInstants)
    \/ Deliver

Spec == Init /\ [][Next]_vars

\* ================================================================== claims
ProtectedOps == {"read_users_me", "admin_list_users", "admin_ban_user",
                 "upload_problem", "get_problem", "update_problem",
                 "list_problems", "solve", "profile"}
SevenDays == 7 * 24 * 60 * 60
UserNamed(sub) == get_user_by_username(Val(sub))

\* C2 as stated: a token issued at t for U with the default lifetime of seven
\* days resolves to U at every second before t + 7d and is rejected with 401
\* at every second from t + 7d on, the expiry second included.
C2_RejectedAtExpiry ==
    /\ (resp.op = "login" /\ resp.status = 200) =>
            Val(resp.body).access_token.exp = now + SevenDays
    /\ resp.op \in ProtectedOps =>
        LET token == resp.req.token
        IN  /\ now < token.exp => resp.status # 401 /\ resp.uid = UserNamed(token.sub)
            /\ now >= token.exp => resp.status = 401

\* C2 amended: the token issued at t expires at t + 7d, resolves to U at every
\* second up to and including t + 7d, and is rejected with 401 at every later
\* second.
C2_TokenLifetime ==
    /\ (resp.op = "login" /\ resp.status = 200) =>
            /\ Val(resp.body).access_token.exp = now + SevenDays
            /\ Val(resp.body).access_token.sub = Some(users[resp.uid].username)
            /\ get_current_user(Val(resp.body).access_token) = resp.uid
    /\ resp.op \in ProtectedOps =>
        LET token == resp.req.token
        IN  /\ now <= token.exp => resp.status # 401 /\ resp.uid = UserNamed(token.sub)
            /\ now > token.exp => resp.status = 401 /\ resp.body = << >>

\* a request served at the very second its token expires
C2_ServedAtExpiry ==
    /\ resp.op = "read_users_me"
    /\ resp.status = 200
    /\ now = resp.req.token.exp
    /\ Val(resp.body).username = Val(resp.req.token.sub)

\* C5 as stated: once a user's is_active flag is false, a login with that
\* user's username and correct password fails and issues no token.
C5_InactiveCannotLogin ==
    resp.op = "login" =>
        LET u == get_user_by_username(resp.req.username)
        IN  (/\ u # 0
             /\ ~users[u].is_active
             /\ verify_password(resp.req.password, users[u].hashed_password))
            => resp.status # 200 /\ resp.body = << >>

C9_AdminGate ==
    [][(/\ resp'.op \in {"admin_list_users", "admin_ban_user"}
        /\ get_current_user(resp'.req.token) # 0
        /\ ~users[get_current_user(resp'.req.token)].is_admin)
       => (/\ resp'.status = 403
           /\ resp'.body = << >>
           /\ users' = users)]_vars

\* a non-admin was refused the ban of an existing, active user
C9_NonAdminRefused ==
    /\ resp.op = "admin_ban_user"
    /\ resp.status = 403
    /\ resp.req.user_id \in DOMAIN users
    /\ users[resp.req.user_id].is_active
    /\ \E i \in DOMAIN users : ~users[i].is_active

\* the requests for username that have been answered
Answered(username) == {r \in 1..MaxRegs : regs[r].pc = "done" /\ regs[r].username = username}
UniqueUsernames ==
    \A i, j \in DOMAIN users : users[i].username = users[j].username => i = j

\* C3: a register for a username that is already in the table is answered 400,
\* adds no row and changes no row; and a login for a registered username
\* succeeds with exactly the password of the registration that was answered
\* 200, not with the password of a refused one.
C3_DuplicateRegistration ==
    /\ [][\A r \in 1..MaxRegs :
            (/\ regs[r].pc = "idle"
             /\ regs'[r].pc # "idle"
             /\ get_user_by_username(regs'[r].username) # 0)
            => (/\ regs'[r].pc = "done"
                /\ regs'[r].status = 400
                /\ resp'.op = "register" /\ resp'.status = 400 /\ resp'.body = << >>
                /\ users' = users)]_vars
    /\ [](resp.op = "login" =>
            (resp.status = 200 <=>
                \E r \in 1..MaxRegs :
                    /\ regs[r].status = 200
                    /\ regs[r].username = resp.req.username
                    /\ regs[r].password = resp.req.password))

\* after a refused second registration under another password, the first
\* password logs in
C3_FirstPasswordLogsIn ==
    \E r1, r2 \in 1..MaxRegs :
        /\ regs[r1].status = 200 /\ regs[r2].status = 400
        /\ regs[r1].username = regs[r2].username
        /\ regs[r1].password # regs[r2].password
        /\ resp.op = "login" /\ resp.status = 200
        /\ resp.req.username = regs[r1].username
        /\ resp.req.password = regs[r1].password

\* C4 as stated: of the answered registrations for one username exactly one
\* succeeded and every other one was answered 400; no two rows share a username.
C4_LoserGets400 ==
    /\ UniqueUsernames
    /\ \A username \in AuthNames :
        Answered(username) # {} =>
            /\ Cardinality({r \in Answered(username) : regs[r].status = 200}) = 1
            /\ \A r \in Answered(username) : regs[r].status \in {200, 400}

\* C4 amended: exactly one succeeds; another one is answered 400 when its
\* existence check ran after the winner's insert, and fails with the unhandled
\* IntegrityError (500) when its check ran before and its insert after; no two
\* rows share a username.
C4_ConcurrentRegistration ==
    /\ [](/\ UniqueUsernames
          /\ \A username \in AuthNames :
                Answered(username) # {} =>
                    /\ Cardinality({r \in Answered(username) : regs[r].status = 200}) = 1
                    /\ \A r \in Answered(username) : regs[r].status \in {200, 400, 500})
    /\ [][\A r \in 1..MaxRegs :
            /\ (regs[r].pc = "idle" /\ regs'[r].pc = "done") =>
                    regs'[r].status = 400 /\ get_user_by_username(regs'[r].username) # 0
            /\ (regs[r].pc = "idle" /\ regs'[r].pc = "checked") =>
                    get_user_by_username(regs'[r].username) = 0
            /\ (regs[r].pc = "checked" /\ regs'[r].pc = "done") =>
                    IF get_user_by_username(regs[r].username) # 0
                    THEN regs'[r].status = 500 /\ users' = users
                    ELSE regs'[r].status = 200 /\ Len(users') = Len(users) + 1]_vars

\* two interleaved registrations of one username: one 200, one 500
C4_RaceLost ==
    \E r1, r2 \in 1..MaxRegs :
        /\ regs[r1].username = regs[r2].username
        /\ regs[r1].pc = "done" /\ regs[r1].status = 200
        /\ regs[r2].pc = "done" /\ regs[r2].status = 500

\* ------------------------------------------------------------ the problems
\* C1: a GET or PATCH of an existing problem by an authenticated caller other
\* than its owner is answered 403 and leaves the problems table as it was;
\* the same request by the owner is answered 200.
C1_OwnershipLaw ==
    [][(/\ resp'.op \in {"get_problem", "update_problem"}
        /\ resp'.uid # 0
        /\ resp'.req.problem_id \in DOMAIN problems)
       => IF problems[resp'.req.problem_id].owner_id # Some(users[resp'.uid].id)
          THEN /\ resp'.status = 403
               /\ resp'.body = << >>
               /\ problems' = problems
          ELSE /\ resp'.status = 200
               /\ Val(resp'.body).id = resp'.req.problem_id]_vars

\* a PATCH by another user was refused on a problem its owner had updated
C1_StrangerRefused ==
    /\ resp.op = "update_problem"
    /\ resp.status = 403
    /\ resp.req.problem_id \in DOMAIN problems
    /\ problems[resp.req.problem_id].owner_id # Some(users[resp.uid].id)
    /\ problems[resp.req.problem_id].subject = Some("math")

\* the columns of a problem other than updated_at
FrameFields == {"id", "owner_id", "source_type", "raw", "file_content", "parsed",
                "subject", "course", "problem_type", "knowledge_tags", "difficulty",
                "is_bookmarked", "tags", "notes", "created_at"}
Supplied(problem_in) == {f \in DOMAIN problem_in : ~IsNone(problem_in[f])}

\* C7: a PATCH that supplies one field changes at most that column and
\* updated_at of the problem it names; every other column of that problem,
\* every other problem and the users table are as before.
C7_PartialUpdateFrame ==
    [][(/\ resp'.op = "update_problem"
        /\ resp'.status = 200
        /\ Cardinality(Supplied(resp'.req.problem_in)) = 1)
       => (/\ DOMAIN problems' = DOMAIN problems
           /\ \A i \in DOMAIN problems :
                IF i = resp'.req.problem_id
                THEN \A f \in FrameFields \ Supplied(resp'.req.problem_in) :
                        problems'[i][f] = problems[i][f]
                ELSE problems'[i] = problems[i]
           /\ users' = users)]_vars

\* the subject of the problem with every field was replaced one second after
\* its upload; its other fields are in the response as they were uploaded
C7_SubjectReplaced ==
    /\ resp.op = "update_problem"
    /\ resp.status = 200
    /\ resp.req.problem_in = [EmptyUpdate EXCEPT !.subject = Some("physics")]
    /\ Val(resp.body).subject = Some("physics")
    /\ Val(resp.body).course = Some("calculus")
    /\ Val(resp.body).knowledge_tags = Some(<<TagA, TagB>>)
    /\ Val(resp.body).updated_at > Val(resp.body).created_at

\* the list a client sent as json.dumps text, None for a field it left out
SentList(text) ==
    IF IsNone(text) THEN NoneV
    ELSE Some(CHOOSE L \in TagLists : json_dumps(L) = Val(text))

\* C8 as stated: a list of strings L, the empty list included, stored as
\* knowledge_tags or tags by an upload or by an update, is L again in the
\* problem read back; an absent list is read back absent.
C8_TagRoundTrip ==
    /\ (/\ resp.op = "upload_problem"
        /\ resp.status = 200
        /\ resp.req.form.knowledge_tags \in {NoneV} \cup {Some(t) : t \in ClientTexts}
        /\ resp.req.form.tags \in {NoneV} \cup {Some(t) : t \in ClientTexts})
       => (/\ Val(resp.body).knowledge_tags = SentList(resp.req.form.knowledge_tags)
           /\ Val(resp.body).tags = SentList(resp.req.form.tags))
    /\ (resp.op = "update_problem" /\ resp.status = 200)
       => (/\ ~IsNone(resp.req.problem_in.knowledge_tags) =>
                Val(resp.body).knowledge_tags = resp.req.problem_in.knowledge_tags
           /\ ~IsNone(resp.req.problem_in.tags) =>
                Val(resp.body).tags = resp.req.problem_in.tags)

\* a tag field of the upload form that is present and is not a JSON array
NotJsonArray(text) ==
    /\ ~IsNone(text)
    /\ ~(json_loads(Val(text)).ok /\ json_loads(Val(text)).val.t = "list")

\* C10 as stated: an upload with neither raw nor file, or with a knowledge_tags
\* or tags field that is not a JSON array, is answered 400 and stores no
\* problem.
C10_UploadValidation ==
    [][(/\ resp'.op = "upload_problem"
        /\ resp'.uid # 0
        /\ \/ IsNone(resp'.req.form.raw) /\ IsNone(resp'.req.form.file)
           \/ NotJsonArray(resp'.req.form.knowledge_tags)
           \/ NotJsonArray(resp'.req.form.tags))
       => (/\ resp'.status = 400
           /\ problems' = problems)]_vars

\* --------------------------------------------------------------- listings
\* the rows of caller uid that pass the filters of q that are supplied
Listed(uid, q, Supplies(_)) ==
    {i \in DOMAIN problems :
        /\ problems[i].owner_id = Some(users[uid].id)
        /\ Supplies(q.subject) => problems[i].subject = q.subject
        /\ Supplies(q.course) => problems[i].course = q.course
        /\ q.bookmarked_only => problems[i].is_bookmarked}

\* the response of GET /problems holds exactly the rows of ids, each once
ListsExactly(r, ids) ==
    /\ r.status = 200
    /\ {Val(r.body)[k].id : k \in DOMAIN Val(r.body)} = ids
    /\ Len(Val(r.body)) = Cardinality(ids)
    /\ \A k \in DOMAIN Val(r.body) :
            Val(r.body)[k] = Val(ProblemOut(problems[Val(r.body)[k].id]).body)

IsSupplied(o) == ~IsNone(o)

\* C11 as stated: GET /problems by caller C returns exactly the problems owned
\* by C whose subject equals the subject parameter and whose course equals the
\* course parameter whenever the parameter is supplied, the empty text
\* included, and that are bookmarked when bookmarked_only is set.
C11_ListingAnyFilter ==
    [][(resp'.op = "list_problems" /\ resp'.uid # 0)
       => ListsExactly(resp', Listed(resp'.uid, resp'.req.q, IsSupplied))]_vars

\* C11: GET /problems by caller C returns exactly the problems owned by C that
\* pass every filter supplied with a non-empty value (subject, course) and are
\* bookmarked when bookmarked_only is set; an empty subject or course filters
\* nothing; no row of another user and no ownerless row is returned, and the
\* store is left as it was.
C11_Listing ==
    [][(resp'.op = "list_problems" /\ resp'.uid # 0)
       => (/\ ListsExactly(resp', Listed(resp'.uid, resp'.req.q, TruthyStr))
           /\ problems' = problems
           /\ users' = users)]_vars

\* alice lists her rows of subject math and gets her one row, not the
\* ownerless row of the same subject and not bob's
C11_OwnRowsListed ==
    /\ resp.op = "list_problems"
    /\ resp.status = 200
    /\ resp.req.q = [NoFilter EXCEPT !.subject = Some("math")]
    /\ Len(Val(resp.body)) = 1
    /\ Val(resp.body)[1].owner_id = Some(users[resp.uid].id)
    /\ \E i \in DOMAIN problems : problems[i].owner_id = NoneV /\ problems[i].subject = Some("math")

\* ------------------------------------------------------------------- gate
\* what makes a token unacceptable at second t
BadSignature(token) == token.sig # Sign(SECRET_KEY, token.sub, token.exp)
Unacceptable(token, t) ==
    \/ BadSignature(token)
    \/ IsNone(token.sub)
    \/ token.exp < t
    \/ \A i \in DOMAIN users : users[i].username # Val(token.sub)

\* C12: on every protected endpoint a request whose token has a signature that
\* does not match, is not decodable, has no subject, is expired or names a
\* username that is not registered is answered 401 with no body, and the users
\* and problems tables are as before.
C12_GateRejects ==
    [][(resp'.op \in ProtectedOps /\ Unacceptable(resp'.req.token, now))
       => (/\ resp'.status = 401
           /\ resp'.uid = 0
           /\ resp'.body = << >>
           /\ users' = users
           /\ problems' = problems)]_vars

\* a PATCH of alice's own problem with her expired token was refused
C12_ExpiredRefused ==
    /\ resp.op = "update_problem"
    /\ resp.req.token = StaleToken
    /\ resp.req.problem_id = 1
    /\ resp.status = 401
    /\ problems[1].owner_id = Some(get_user_by_username("alice"))

\* -------------------------------------------------------------- ownerless
\* C13: for a problem whose owner_id is NULL, a GET by any authenticated user
\* is answered 200 with the problem, and a PATCH by any authenticated user is
\* answered 403 and leaves the problems table as it was.
C13_Ownerless ==
    [][(/\ resp'.op \in {"get_problem", "update_problem"}
        /\ resp'.uid # 0
        /\ resp'.req.problem_id \in DOMAIN problems
        /\ problems[resp'.req.problem_id].owner_id = NoneV)
       => IF resp'.op = "get_problem"
          THEN /\ resp'.status = 200
               /\ Val(resp'.body).id = resp'.req.problem_id
               /\ Val(resp'.body).owner_id = NoneV
               /\ problems' = problems
          ELSE /\ resp'.status = 403
               /\ resp'.body = << >>
               /\ problems' = problems]_vars

\* bob was refused the PATCH of the ownerless problem
C13_OwnerlessPatchRefused ==
    /\ resp.op = "update_problem"
    /\ resp.status = 403
    /\ resp.uid = get_user_by_username("bob")
    /\ resp.req.problem_id \in DOMAIN problems
    /\ problems[resp.req.problem_id].owner_id = NoneV

\* ------------------------------------------------------------------ login
\* C14: at every store state a login with a username that is not registered
\* and a login with a registered username and a wrong password get the same
\* answer, status 400 with one detail text and no token, whatever the
\* password; and a refused login changes nothing that is stored.
C14_AntiEnumeration ==
    /\ [](\A u1, u2 \in AuthNames, p1, p2 \in AuthPws :
            (/\ get_user_by_username(u1) = 0
             /\ get_user_by_username(u2) # 0
             /\ ~verify_password(p2, users[get_user_by_username(u2)].hashed_password))
            => (/\ login(u1, p1) = login(u2, p2)
                /\ login(u1, p1).status = 400
                /\ DOMAIN Val(login(u1, p1).body) = {"detail"}))
    /\ [][(resp'.op = "login" /\ authenticate_user(resp'.req.username, resp'.req.password) = 0)
          => (/\ resp'.status = 400
              /\ DOMAIN Val(resp'.body) = {"detail"}
              /\ <<users, problems, tokens>>' = <<users, problems, tokens>>)]_vars

\* a registered user was refused for a wrong password while another name is
\* still unregistered
C14_WrongPasswordRefused ==
    /\ resp.op = "login"
    /\ resp.status = 400
    /\ get_user_by_username(resp.req.username) # 0
    /\ \E u \in AuthNames : get_user_by_username(u) = 0

\* ------------------------------------------------------------ admin list
\* C15 as stated: GET /admin/users by an administrator returns every
\* registered user exactly once, however many users there are.
C15_ListsEveryUser ==
    (resp.op = "admin_list_users" /\ resp.status = 200)
    => (/\ Len(Val(resp.body)) = Len(users)
        /\ \A i \in DOMAIN users :
                Cardinality({k \in DOMAIN Val(resp.body) : Val(resp.body)[k].id = users[i].id}) = 1)

\* ------------------------------------------------------ concurrent updates
\* the patch that committed as the n-th
Committed(n) == CHOOSE s \in DOMAIN patches : patches[s].order = n

\* C16 as stated: once two PATCHes of the owner on one problem have both
\* committed, under any interleaving of their steps, the stored problem is the
\* one that results from applying the first committed payload and then the
\* second to the problem as it was before both (updated_at aside).
C16_LastWriterWins ==
    (/\ \A n \in 1..2 : \E s \in DOMAIN patches : patches[s].order = n
     /\ patches[Committed(1)].req.problem_id = 1
     /\ patches[Committed(2)].req.problem_id = 1)
    => \A f \in FrameFields :
          problems[1][f] =
            ApplyUpdate(ApplyUpdate(FullRow, patches[Committed(1)].req.problem_in),
                        patches[Committed(2)].req.problem_in)[f]

DecodesToStrList(text) ==
    /\ json_loads(text).ok
    /\ json_loads(text).val.t = "list"
    /\ \A i \in DOMAIN json_loads(text).val.v : json_loads(text).val.v[i].t = "str"

\* C18 as stated: a GET of a problem by its owner is answered 200 whatever the
\* stored knowledge_tags and tags texts are, and a field whose text is absent,
\* is not JSON, or is JSON but not a list of strings is absent in the answer.
C18_TolerantDecoding ==
    (/\ resp.op = "get_problem"
     /\ resp.uid # 0
     /\ resp.req.problem_id \in DOMAIN problems
     /\ problems[resp.req.problem_id].owner_id = Some(users[resp.uid].id))
    => (/\ resp.status = 200
        /\ \A f \in {"knowledge_tags", "tags"} :
              (\/ IsNone(problems[resp.req.problem_id][f])
               \/ ~DecodesToStrList(Val(problems[resp.req.problem_id][f])))
              => Val(resp.body)[f] = NoneV)

\* ------------------------------------------------------------ upload result
\* a form with raw text and nothing else
RawOnly(form) == TruthyStr(form.raw) /\ form = MinimalForm(form.raw)

\* C19: an upload by an authenticated caller with only raw text is answered
\* 200 and appends one problem whose owner is the caller, whose raw is the
\* text sent, whose difficulty, knowledge_tags and tags are absent and whose
\* is_bookmarked is false, and returns its id; a GET by the owner of a problem
\* so uploaded is answered 200 with that problem under the id asked for; and
\* the owner's unfiltered list holds every problem so uploaded.
C19_UploadResult ==
    [][/\ (resp'.op = "upload_problem" /\ resp'.uid # 0 /\ RawOnly(resp'.req.form))
          => (/\ resp'.status = 200
              /\ Len(problems') = Len(problems) + 1
              /\ SubSeq(problems', 1, Len(problems)) = problems
              /\ problems'[Len(problems')].owner_id = Some(users[resp'.uid].id)
              /\ problems'[Len(problems')].raw = resp'.req.form.raw
              /\ problems'[Len(problems')].difficulty = NoneV
              /\ problems'[Len(problems')].knowledge_tags = NoneV
              /\ problems'[Len(problems')].tags = NoneV
              /\ problems'[Len(problems')].is_bookmarked = FALSE
              /\ problems'[Len(problems')].id = Len(problems')
              /\ Val(resp'.body).id = Len(problems')
              /\ Val(resp'.body).owner_id = Some(users[resp'.uid].id))
       /\ (/\ resp'.op = "get_problem"
           /\ resp'.uid # 0
           /\ resp'.req.problem_id \in DOMAIN problems
           /\ problems[resp'.req.problem_id].owner_id = Some(users[resp'.uid].id))
          => (/\ resp'.status = 200
              /\ Val(resp'.body).id = resp'.req.problem_id
              /\ Val(resp'.body) = Val(ProblemOut(problems[resp'.req.problem_id]).body)
              /\ Val(resp'.body).knowledge_tags = NoneV
              /\ Val(resp'.body).tags = NoneV
              /\ Val(resp'.body).difficulty = NoneV)
       /\ (resp'.op = "list_problems" /\ resp'.uid # 0 /\ resp'.req.q = NoFilter)
          => (/\ resp'.status = 200
              /\ \A i \in DOMAIN problems :
                    problems[i].owner_id = Some(users[resp'.uid].id)
                    => \E k \in DOMAIN Val(resp'.body) : Val(resp'.body)[k].id = i)]_vars

\* bob has uploaded "2+2=?" after the first row and lists it without a filter
C19_UploadedThenListed ==
    /\ resp.op = "list_problems"
    /\ resp.status = 200
    /\ resp.req.q = NoFilter
    /\ users[resp.uid].username = "bob"
    /\ \E k \in DOMAIN Val(resp.body) :
          /\ Val(resp.body)[k].id = 2
          /\ problems[2].owner_id = Some(users[resp.uid].id)
          /\ problems[2].raw = Some("2+2=?")
          /\ problems[2].difficulty = NoneV
          /\ Val(resp.body)[k].is_bookmarked = FALSE

\* ------------------------------------------------------ immutable ownership
\* C20: no step changes the owner, the raw content, the source kind, the file
\* payload or the creation timestamp of a problem that exists, nor its id; no
\* step removes a problem; and no step removes a user or changes the id or the
\* username of one.
C20_ImmutableOwnership ==
    [][/\ Len(problems') >= Len(problems)
       /\ \A i \in DOMAIN problems :
            /\ problems'[i].id = problems[i].id
            /\ problems'[i].owner_id = problems[i].owner_id
            /\ problems'[i].raw = problems[i].raw
            /\ problems'[i].source_type = problems[i].source_type
            /\ problems'[i].file_content = problems[i].file_content
            /\ problems'[i].created_at = problems[i].created_at
       /\ Len(users') >= Len(users)
       /\ \A u \in DOMAIN users :
            /\ users'[u].id = users[u].id
            /\ users'[u].username = users[u].username]_vars

\* alice's uploaded file has been updated at a later second than it was
\* created, its payload is still there, and alice has been banned since
C20_UpdatedAndBanned ==
    \E i \in DOMAIN problems :
        /\ problems[i].owner_id = Some(2)
        /\ problems[i].source_type = "image"
        /\ problems[i].file_content = Some(b64encode(PngFile.bytes))
        /\ problems[i].raw = Some("FILE:problem.png")
        /\ problems[i].updated_at > problems[i].created_at
        /\ ~users[2].is_active

\* ------------------------------------------------------------ update effect
\* the text, number and flag columns a PATCH can set, and the tag-list columns
PlainFields == {"subject", "course", "problem_type", "difficulty", "notes"}
ListFields == {"knowledge_tags", "tags"}

\* after a PATCH answered 200 every field of the payload that is not None is
\* stored (a tag list is read back as sent), false, 0, "" and [] included, and
\* every other field is as before
FieldsWritten(old, new, out, problem_in) ==
    /\ \A f \in PlainFields :
          new[f] = IF IsNone(problem_in[f]) THEN old[f] ELSE problem_in[f]
    /\ new.is_bookmarked = IF IsNone(problem_in.is_bookmarked) THEN old.is_bookmarked
                           ELSE Val(problem_in.is_bookmarked)
    /\ \A f \in ListFields :
          IF IsNone(problem_in[f]) THEN new[f] = old[f] ELSE out[f] = problem_in[f]
    /\ \A f \in FrameFields \ (PlainFields \cup ListFields \cup {"is_bookmarked"}) :
          new[f] = old[f]

\* C21 as stated: after a PATCH answered 200 every supplied field holds the
\* supplied value, the falsy ones included, every other field keeps its value,
\* and updated_at is the time of this call, never earlier than it was.
C21_UpdateEffect ==
    [][(resp'.op = "update_problem" /\ resp'.status = 200)
       => (/\ FieldsWritten(problems[resp'.req.problem_id], problems'[resp'.req.problem_id],
                            Val(resp'.body), resp'.req.problem_in)
           /\ problems'[resp'.req.problem_id].updated_at = now
           /\ problems'[resp'.req.problem_id].updated_at
                >= problems[resp'.req.problem_id].updated_at)]_vars

\* ------------------------------------------------------- failed requests
Refusals == {400, 401, 403, 404}

\* C22: a step that answers a request with 400, 401, 403 or 404 leaves the
\* users table and the problems table, every field of every row, as they
\* were before it.
C22_FailedRequestsFrame ==
    [][(resp'.status \in Refusals) => (users' = users /\ problems' = problems)]_vars

\* root's PATCH of alice's problem is refused after carol has registered and a
\* second problem was uploaded: the flag the PATCH asked for is not set
C22_RefusedAfterWrites ==
    /\ resp.op = "update_problem"
    /\ resp.status = 403
    /\ users[resp.uid].username = "root"
    /\ resp.req.problem_id = 1
    /\ ~problems[1].is_bookmarked
    /\ Len(users) = 3
    /\ Len(problems) = 2

\* ---------------------------------------------------- no privilege escalation
AdminOps == {"admin_list_users", "admin_ban_user"}
NoAdminAllActive == \A u \in DOMAIN users : ~users[u].is_admin /\ users[u].is_active

\* C23 as stated: from a store without admins no user is ever an admin, every
\* user stays active, and every call of an admin endpoint is answered 403.
C23_EveryAdminCall403 ==
    /\ NoAdminAllActive
    /\ resp.op \in AdminOps => resp.status = 403

\* C23: a user created by register is not an admin and is active, and no step
\* changes the admin flag of a user; from a store without admins no user is
\* ever an admin, every user stays active, and every call of an admin endpoint
\* is answered 403 when its token resolves to a user and 401 when it does not.
C23_NoEscalation ==
    /\ [](/\ NoAdminAllActive
          /\ resp.op \in AdminOps => resp.status = IF resp.uid = 0 THEN 401 ELSE 403
          /\ (resp.op = "register" /\ resp.status = 200)
             => (/\ ~users[Val(resp.body).id].is_admin
                 /\ users[Val(resp.body).id].is_active))
    /\ [][\A u \in DOMAIN users : users'[u].is_admin = users[u].is_admin]_vars

\* alice and bob are registered, one of them is logged in and asks to ban a
\* user of the table: the answer is 403 and that user is still active
C23_BanRefused ==
    /\ resp.op = "admin_ban_user"
    /\ resp.status = 403
    /\ resp.uid # 0
    /\ resp.req.user_id \in DOMAIN users
    /\ users[resp.req.user_id].is_active
    /\ Len(users) = 2

====
